---------------------------- MODULE Spec2Model ----------------------------
(***************************************************************************)
(* zel2wez (src/cli.ts): converts a KDL layout document into a WezTerm     *)
(* startup script.  The model follows one run of generateWezTermConfig:    *)
(* read + parse, find the layout node, processChildren, generateLuaCode,   *)
(* write.  JavaScript strings are TLA+ strings; an optional property is a  *)
(* record field that is absent from the record's DOMAIN (undefined).       *)
(***************************************************************************)
EXTENDS Integers, Sequences, FiniteSets, TLC

VARIABLES
    pc,           \* position of the run inside generateWezTermConfig
    parseResult,  \* what kdljs' parse returned: [errors, output]
    rootPane,     \* the pane tree built by processChildren
    splits,       \* the generatePaneSplit calls made by generateLuaCode, in order
    luaCode,      \* the script text returned by generateLuaCode
    existingFile, \* the output file before the run: <<>> (none) or <<its contents>>
    outputFile,   \* the output file now: <<>> (none) or <<its contents>>
    writeCalls,   \* the number of calls of fs.writeFileSync
    stderr,       \* the console.error diagnostics, in order
    name,         \* argument of a sanitizeName call
    sanitized,    \* result of that sanitizeName call
    again         \* result of sanitizeName applied to that result

vars == <<pc, parseResult, rootPane, splits, luaCode, existingFile, outputFile,
          writeCalls, stderr, name, sanitized, again>>

(***************************************************************************)
(* Bounds of the checked inputs.                                           *)
(***************************************************************************)
MaxGroups == 3     \* top-level pane groups of a layout
MaxPanes == 3      \* child panes of one group
MaxArgs == 3       \* values of one args node
MaxNest == 2       \* levels of panes nested below a group's child
MaxNameLen == 3    \* length of the strings given to sanitizeName
MaxCuts == 3       \* places inside the script at which a failing write may stop

(***************************************************************************)
(* JavaScript helpers.                                                     *)
(***************************************************************************)

\* x.k is neither undefined nor "" (the test made by `if (x.k)` and `x.k || d`)
Truthy(obj, k) == k \in DOMAIN obj /\ obj[k] # ""

\* obj.k || dflt
OrElse(obj, k, dflt) == IF Truthy(obj, k) THEN obj[k] ELSE dflt

\* mutant: the copy is not reversed
Reverse_Identity(seq) == seq

\* [...seq].reverse()
Reverse(seq) == [k \in 1..Len(seq) |-> seq[Len(seq) + 1 - k]]

\* the characters the regular expression /[^a-zA-Z0-9_]/ does NOT match
LowerChars == <<"a","b","c","d","e","f","g","h","i","j","k","l","m",
                "n","o","p","q","r","s","t","u","v","w","x","y","z">>
UpperChars == <<"A","B","C","D","E","F","G","H","I","J","K","L","M",
                "N","O","P","Q","R","S","T","U","V","W","X","Y","Z">>
DigitChars == <<"0","1","2","3","4","5","6","7","8","9">>
WordChars == {LowerChars[k] : k \in 1..26} \cup {UpperChars[k] : k \in 1..26}
             \cup {DigitChars[k] : k \in 1..10} \cup {"_"}

\* one character of name.replace(/[^a-zA-Z0-9_]/g, "_")
ReplaceChar(c) == IF c \in WordChars THEN c ELSE "_"

\* one character of String.prototype.toLowerCase, on the characters replace leaves
LowerChar(c) ==
    IF \E k \in 1..26 : UpperChars[k] = c
    THEN LowerChars[CHOOSE k \in 1..26 : UpperChars[k] = c]
    ELSE c

RECURSIVE replaceAll(_)
replaceAll(s) ==
    IF s = "" THEN ""
    ELSE ReplaceChar(SubSeq(s, 1, 1)) \o replaceAll(SubSeq(s, 2, Len(s)))

RECURSIVE toLowerCase(_)
toLowerCase(s) ==
    IF s = "" THEN ""
    ELSE LowerChar(SubSeq(s, 1, 1)) \o toLowerCase(SubSeq(s, 2, Len(s)))

\* mutant: the toLowerCase call is forgotten
sanitizeName_NoLowerCase(s) == replaceAll(s)

sanitizeName(s) == toLowerCase(replaceAll(s))

(***************************************************************************)
(* processChildren: generic KDL nodes to the pane tree.                    *)
(***************************************************************************)
IsPaneNode(node) == node.name = "pane"
IsArgsNode(node) == node.name = "args"

\* the object literal of lines 54-59: undefined properties stay undefined
NewPane(node) ==
    [k \in ({"split_direction", "command", "name"} \cap DOMAIN node.properties)
           \cup {"panes"} |->
        IF k = "panes" THEN <<>> ELSE node.properties[k]]

\* pane.args = argsNode.values, for the first child named args, when pane.command
WithArgs(pane, node) ==
    LET argsNodes == SelectSeq(node.children, IsArgsNode)
    IN  IF Truthy(pane, "command") /\ argsNodes # <<>>
        THEN [k \in DOMAIN pane \cup {"args"} |->
                 IF k = "args" THEN argsNodes[1].values ELSE pane[k]]
        ELSE pane

RECURSIVE processChildren(_, _)
processChildren(nodes, parentPane) ==
    IF nodes = <<>> THEN parentPane
    ELSE LET node == Head(nodes) IN
         IF IsPaneNode(node)
         THEN LET pane == WithArgs(NewPane(node), node)
                  childPanes == SelectSeq(node.children, IsPaneNode)
                  filled == IF Len(childPanes) > 0
                            THEN processChildren(childPanes, pane)
                            ELSE pane
              IN  processChildren(Tail(nodes),
                     [parentPane EXCEPT !.panes = Append(@, filled)])
         ELSE processChildren(Tail(nodes), parentPane)

(***************************************************************************)
(* generatePaneSplit and generateLuaCode.                                  *)
(***************************************************************************)
Prologue ==
    "local wezterm = require 'wezterm'\nlocal mux = wezterm.mux\n\nwezterm.on('gui-startup', function(cmd)\n  local tab, pane, window\n  \n  tab, pane, window = mux.spawn_window {\n    cwd = cmd.args[1]\n  }\n  tab:set_title 'dgame'\n  window:set_title 'dgame'\n\n  wezterm.log_warn(cmd.args[1])\n\n"

Epilogue ==
    "\nend)\n\n\nconfig = {}\n\n-- fix windows in virtualbox\nconfig.prefer_egl=true\n\nreturn config\n"

\* pane.args.map((arg) => `'${arg}'`).join(", ")
RECURSIVE JoinQuoted(_)
JoinQuoted(args) ==
    IF Len(args) = 0 THEN ""
    ELSE IF Len(args) = 1 THEN "'" \o args[1] \o "'"
    ELSE "'" \o args[1] \o "', " \o JoinQuoted(Tail(args))

\* the variable a split statement declares (line 156)
PaneVar(pane) == "pane_" \o sanitizeName(OrElse(pane, "name", "unnamed"))

\* mutant: the args key is written only for a pane that has args
ArgsLine_OnlyWithArgs(pane) ==
    IF Truthy(pane, "command") /\ "args" \in DOMAIN pane /\ Len(pane.args) > 0
    THEN "    args = {'" \o pane.command \o "', " \o JoinQuoted(pane.args) \o "},\n"
    ELSE ""

\* the args line of a split statement (lines 160-168)
ArgsLine(pane) ==
    IF Truthy(pane, "command")
    THEN IF "args" \in DOMAIN pane /\ Len(pane.args) > 0
         THEN "    args = {'" \o pane.command \o "', " \o JoinQuoted(pane.args) \o "},\n"
         ELSE "    args = {'" \o pane.command \o "'},\n"
    ELSE ""

generatePaneSplit(parentVar, pane, direction) ==
    "  -- we create a new horizontal pane\n"
    \o "  local " \o PaneVar(pane) \o " = " \o parentVar \o ":split {\n"
    \o ArgsLine(pane)
    \o "    direction = '" \o direction \o "'\n"
    \o "  }\n"

\* one call generatePaneSplit(parentVar, pane, direction), made for panes[j] of
\* rootPanes[i] (i, j are the loops' 0-based indices)
SplitCall(i, j, parentVar, pane, direction) ==
    [i |-> i, j |-> j, parentVar |-> parentVar, pane |-> pane, direction |-> direction]

\* prevPaneVar after the split of panes[j] (line 125 for j = 0, line 130 for j >= 1)
PrevPaneVar(pane, j) ==
    "pane_" \o sanitizeName(OrElse(pane, "name",
                 IF j = 0 THEN "unnamed" ELSE "unnamed_" \o ToString(j)))

\* the inner loop, lines 128-131, from index j on
RECURSIVE RemainingPanes(_, _, _, _)
RemainingPanes(i, panes, j, prevPaneVar) ==
    IF j < Len(panes)
    THEN <<SplitCall(i, j, prevPaneVar, panes[j + 1], "Right")>>
         \o RemainingPanes(i, panes, j + 1, PrevPaneVar(panes[j + 1], j))
    ELSE <<>>

\* mutant: the first pane of a group is split 'Right' like the others
GroupSplits_FirstRight(i, paneGroup) ==
    IF "panes" \in DOMAIN paneGroup /\ Len(paneGroup.panes) > 0
    THEN LET panes == Reverse(paneGroup.panes)
         IN  <<SplitCall(i, 0, "pane", panes[1], "Right")>>
             \o RemainingPanes(i, panes, 1, PrevPaneVar(panes[1], 0))
    ELSE <<>>

\* mutant: the panes below a group's children are split as well
RECURSIVE WithDescendants(_)
WithDescendants(panes) ==
    IF panes = <<>> THEN <<>>
    ELSE <<panes[1]>> \o WithDescendants(panes[1].panes) \o WithDescendants(Tail(panes))
GroupSplits_Deep(i, paneGroup) ==
    IF "panes" \in DOMAIN paneGroup /\ Len(paneGroup.panes) > 0
    THEN LET panes == Reverse(WithDescendants(paneGroup.panes))
         IN  <<SplitCall(i, 0, "pane", panes[1], "Bottom")>>
             \o RemainingPanes(i, panes, 1, PrevPaneVar(panes[1], 0))
    ELSE <<>>

\* mutant: a group without child panes is split as a pane of its own
GroupSplits_LeafToo(i, paneGroup) ==
    IF "panes" \in DOMAIN paneGroup /\ Len(paneGroup.panes) > 0
    THEN LET panes == Reverse(paneGroup.panes)
         IN  <<SplitCall(i, 0, "pane", panes[1], "Bottom")>>
             \o RemainingPanes(i, panes, 1, PrevPaneVar(panes[1], 0))
    ELSE <<SplitCall(i, 0, "pane", paneGroup, "Bottom")>>

\* the body of the outer loop, lines 116-132
GroupSplits(i, paneGroup) ==
    IF "panes" \in DOMAIN paneGroup /\ Len(paneGroup.panes) > 0
    THEN LET panes == Reverse(paneGroup.panes)
             firstPane == panes[1]
         IN  <<SplitCall(i, 0, "pane", firstPane, "Bottom")>>
             \o RemainingPanes(i, panes, 1, PrevPaneVar(firstPane, 0))
    ELSE <<>>

\* the outer loop, line 115, from index i on
RECURSIVE RemainingGroups(_, _)
RemainingGroups(rootPanes, i) ==
    IF i < Len(rootPanes)
    THEN GroupSplits(i, rootPanes[i + 1]) \o RemainingGroups(rootPanes, i + 1)
    ELSE <<>>

\* mutant: the outer loop starts at index 0, the main pane
SplitCalls_FromZero(root) ==
    IF "panes" \in DOMAIN root /\ Len(root.panes) > 0
    THEN RemainingGroups(Reverse(root.panes), 0)
    ELSE <<>>

\* every generatePaneSplit call of generateLuaCode, in call order (lines 107-134)
SplitCalls(root) ==
    IF "panes" \in DOMAIN root /\ Len(root.panes) > 0
    THEN RemainingGroups(Reverse(root.panes), 1)
    ELSE <<>>

RECURSIVE SplitsText(_)
SplitsText(calls) ==
    IF calls = <<>> THEN ""
    ELSE generatePaneSplit(calls[1].parentVar, calls[1].pane, calls[1].direction)
         \o SplitsText(Tail(calls))

generateLuaCode(root) == Prologue \o SplitsText(SplitCalls(root)) \o Epilogue

(***************************************************************************)
(* The documents the parser may return: GenericNode trees.                 *)
(***************************************************************************)
Node(n, props, children, values) ==
    [name |-> n, properties |-> props, children |-> children, values |-> values]

NoProps == [k \in {} |-> ""]

\* properties of a pane node; an empty set leaves the property out
Props(nameOpt, commandOpt) ==
    [k \in (IF nameOpt = {} THEN {} ELSE {"name"})
           \cup (IF commandOpt = {} THEN {} ELSE {"command"}) |->
        IF k = "name" THEN CHOOSE v \in nameOpt : TRUE
                      ELSE CHOOSE v \in commandOpt : TRUE]

PaneNode(nameOpt, commandOpt, children) ==
    Node("pane", Props(nameOpt, commandOpt), children, <<>>)
ArgsNode(values) == Node("args", NoProps, <<>>, values)
LayoutNode(children) == Node("layout", NoProps, children, <<>>)
OtherNode(children) == Node("tab", NoProps, children, <<>>)
Leaf(nameOpt) == PaneNode(nameOpt, {}, <<>>)

SeqsUpTo(S, n) == UNION {[1..k -> S] : k \in 0..n}

\* Groups of named and unnamed children: the names a split variable comes from.
NameChoices == {{}, {""}, {"x"}, {"y"}, {"My-Pane"}}
NamedGroups ==
    {PaneNode({"g"}, {}, [k \in DOMAIN ns |-> Leaf(ns[k])]) :
        ns \in SeqsUpTo(NameChoices, MaxPanes)}
OtherGroups == {Leaf({"main"}), PaneNode({"m"}, {}, <<Leaf({"x"}), Leaf({"y"})>>)}
NameDocs ==
    {<<LayoutNode(<<g, h>>)>> : g \in NamedGroups, h \in OtherGroups}
    \cup {<<LayoutNode(<<h, g>>)>> : g \in NamedGroups, h \in OtherGroups}

\* Children with and without a command and an args node.
ArgPool == <<"-p", "22", "host", "-v">>
ArgValues(n) == [k \in 1..n |-> ArgPool[((k - 1) % Len(ArgPool)) + 1]]
CommandChoices == {{}, {""}, {"htop"}, {"ssh"}}
ArgsChoices == {<<>>} \cup {<<ArgsNode(ArgValues(n))>> : n \in 0..MaxArgs}
CommandPanes ==
    {PaneNode({"c"}, c, a) : c \in CommandChoices, a \in ArgsChoices}
CommandDocs ==
    {<<LayoutNode(<<PaneNode({}, {}, ps), Leaf({"main"})>>)>> :
        ps \in {<<p>> : p \in CommandPanes}
               \cup {<<p, q>> : p \in CommandPanes, q \in CommandPanes}}

\* Layouts of up to MaxGroups groups with up to MaxPanes children each; a group
\* has a command of its own or not.
ShapeGroup(g, n, hasCommand) ==
    PaneNode({"g" \o ToString(g)}, IF hasCommand THEN {"top"} ELSE {},
             [k \in 1..n |-> Leaf({"p" \o ToString(g) \o ToString(k)})])
ShapeDocs ==
    {<<LayoutNode([g \in DOMAIN sh |-> ShapeGroup(g, sh[g][1], sh[g][2])])>> :
        sh \in SeqsUpTo((0..MaxPanes) \X BOOLEAN, MaxGroups)}

\* Panes nested below a group's children.
RECURSIVE Chain(_, _)
Chain(level, depth) ==
    PaneNode({"n" \o ToString(level)},
             IF level % 2 = 0 THEN {"sh"} ELSE {},
             IF depth = 0 THEN <<>> ELSE <<Chain(level + 1, depth - 1)>>)
Chains == {Chain(2, d) : d \in 0..MaxNest}
NestedGroups ==
    {PaneNode({"a"}, {}, cs) : cs \in SeqsUpTo(Chains, 2)}
NestedDocs ==
    {<<LayoutNode(<<g>>)>> : g \in NestedGroups}
    \cup {<<LayoutNode(<<g, h>>)>> : g \in NestedGroups, h \in NestedGroups}

\* Documents with no layout node, a layout that is not the first node, nodes
\* other than panes inside the layout, and a layout below the top level.
OneGroup ==
    Node("pane", [name |-> "w", split_direction |-> "Down"],
         <<ArgsNode(<<"lost">>), Leaf({"k"}), OtherNode(<<Leaf({"hidden"})>>), Leaf({})>>, <<>>)
MiscDocs ==
    { <<>>,
      <<OtherNode(<<>>)>>,
      <<OtherNode(<<LayoutNode(<<OneGroup, Leaf({})>>)>>)>>,
      <<LayoutNode(<<>>)>>,
      <<LayoutNode(<<OtherNode(<<Leaf({"t"})>>)>>)>>,
      <<OtherNode(<<>>), LayoutNode(<<OneGroup, OtherNode(<<>>), Leaf({})>>)>>,
      <<LayoutNode(<<OtherNode(<<>>), OneGroup, ArgsNode(<<"z">>), Leaf({"m"})>>),
        LayoutNode(<<Leaf({"second"})>>)>> }

Docs == NameDocs \cup CommandDocs \cup ShapeDocs \cup NestedDocs \cup MiscDocs

\* what parse() may return: errors and no output, or no errors and a document
ParseResults ==
    {[errors |-> <<"parse error">>]}
    \cup {[errors |-> <<>>, output |-> d] : d \in Docs}

(***************************************************************************)
(* generateWezTermConfig, step by step.                                    *)
(***************************************************************************)
\* parseResult.output?.find((node) => node.name === "layout"): the matching nodes
\* mutant: the first top-level node is taken for the layout node
FindLayout_FirstNode(output) == IF output = <<>> THEN <<>> ELSE <<output[1]>>

FindLayout(output) == SelectSeq(output, LAMBDA node : node.name = "layout")

ParseOk == parseResult.errors = <<>>

\* the output path before the run: no file, or a file of an earlier run
ExistingFiles == {<<>>, <<"old script">>}

Init ==
    /\ pc = "start"
    /\ parseResult = [errors |-> <<>>, output |-> <<>>]
    /\ rootPane = [panes |-> <<>>]
    /\ splits = <<>>
    /\ luaCode = ""
    /\ existingFile \in ExistingFiles
    /\ outputFile = existingFile
    /\ writeCalls = 0
    /\ stderr = <<>>
    /\ name = ""
    /\ sanitized = ""
    /\ again = ""

\* fs.readFileSync throws: the exception leaves generateWezTermConfig
ReadFails ==
    /\ pc = "start"
    /\ pc' = "threw"
    /\ UNCHANGED <<parseResult, rootPane, splits, luaCode, existingFile, outputFile, writeCalls, stderr, name, sanitized, again>>

\* fs.readFileSync returns and parse(kdlContent) returns result
ReadAndParse ==
    /\ pc = "start"
    /\ \E result \in ParseResults : parseResult' = result
    /\ pc' = "parsed"
    /\ UNCHANGED <<rootPane, splits, luaCode, existingFile, outputFile, writeCalls, stderr, name, sanitized, again>>

\* the else branch of line 46
ParseErrors ==
    /\ pc = "parsed"
    /\ ~ParseOk
    /\ stderr' = Append(stderr, "Error parsing KDL:")
    /\ pc' = "returned"
    /\ UNCHANGED <<parseResult, rootPane, splits, luaCode, existingFile, outputFile, writeCalls, name, sanitized, again>>

\* lines 27-30
NoLayout ==
    /\ pc = "parsed"
    /\ ParseOk
    /\ FindLayout(parseResult.output) = <<>>
    /\ stderr' = Append(stderr, "No layout node found in KDL file")
    /\ pc' = "returned"
    /\ UNCHANGED <<parseResult, rootPane, splits, luaCode, existingFile, outputFile, writeCalls, name, sanitized, again>>

\* lines 33-38
BuildTree ==
    /\ pc = "parsed"
    /\ ParseOk
    /\ FindLayout(parseResult.output) # <<>>
    /\ rootPane' = processChildren(FindLayout(parseResult.output)[1].children,
                                   [panes |-> <<>>])
    /\ pc' = "built"
    /\ UNCHANGED <<parseResult, splits, luaCode, existingFile, outputFile, writeCalls, stderr, name, sanitized, again>>

\* line 41
Generate ==
    /\ pc = "built"
    /\ splits' = SplitCalls(rootPane)
    /\ luaCode' = generateLuaCode(rootPane)
    /\ pc' = "generated"
    /\ UNCHANGED <<parseResult, rootPane, existingFile, outputFile, writeCalls, stderr, name, sanitized, again>>

\* line 44: fs.writeFileSync returns (the file is created or truncated and holds
\* the script), then line 45
Write ==
    /\ pc = "generated"
    /\ writeCalls' = writeCalls + 1
    /\ outputFile' = <<luaCode>>
    /\ pc' = "returned"
    /\ UNCHANGED <<parseResult, rootPane, splits, luaCode, existingFile, stderr, name, sanitized, again>>

\* the lengths at which a write of data that fails after the open may stop:
\* nothing written, all but the last character, and MaxCuts - 1 places between
FailurePoints(data) ==
    {0} \cup {(Len(data) * c) \div MaxCuts : c \in 1..(MaxCuts - 1)}
        \cup (IF data = "" THEN {} ELSE {Len(data) - 1})

\* line 44: fs.writeFileSync throws and the exception leaves generateWezTermConfig
\* (line 45 is not reached).  Either the open fails and the path is left as it
\* was, or the file was opened (created or truncated) and the write stops early:
\* the file holds a proper prefix of the script.
WriteFails ==
    /\ pc = "generated"
    /\ writeCalls' = writeCalls + 1
    /\ \/ outputFile' = outputFile
       \/ \E k \in FailurePoints(luaCode) : outputFile' = <<SubSeq(luaCode, 1, k)>>
    /\ pc' = "threw"
    /\ UNCHANGED <<parseResult, rootPane, splits, luaCode, existingFile, stderr, name, sanitized, again>>

Next ==
    \/ ReadFails
    \/ ReadAndParse
    \/ ParseErrors
    \/ NoLayout
    \/ BuildTree
    \/ Generate
    \/ Write
    \/ WriteFails

Spec == Init /\ [][Next]_vars

(***************************************************************************)
(* sanitizeName on its own: called on a string, then on its own result.    *)
(***************************************************************************)
NameAlphabet == {"a", "Z", "7", "_", "-", " ", "."}

RECURSIVE Strings(_)
Strings(n) ==
    IF n = 0 THEN {""}
    ELSE LET shorter == Strings(n - 1)
         IN  shorter \cup {s \o c : s \in shorter, c \in NameAlphabet}

InitSanitize ==
    /\ pc = "sanitize"
    /\ name \in Strings(MaxNameLen)
    /\ sanitized = ""
    /\ again = ""
    /\ parseResult = [errors |-> <<>>, output |-> <<>>]
    /\ rootPane = [panes |-> <<>>]
    /\ splits = <<>>
    /\ luaCode = ""
    /\ existingFile = <<>>
    /\ outputFile = <<>>
    /\ writeCalls = 0
    /\ stderr = <<>>

Sanitize ==
    /\ pc = "sanitize"
    /\ sanitized' = sanitizeName(name)
    /\ pc' = "sanitized"
    /\ UNCHANGED <<parseResult, rootPane, splits, luaCode, existingFile, outputFile, writeCalls, stderr, name, again>>

SanitizeAgain ==
    /\ pc = "sanitized"
    /\ again' = sanitizeName(sanitized)
    /\ pc' = "resanitized"
    /\ UNCHANGED <<parseResult, rootPane, splits, luaCode, existingFile, outputFile, writeCalls, stderr, name, sanitized>>

NextSanitize == Sanitize \/ SanitizeAgain

SpecSanitize == InitSanitize /\ [][NextSanitize]_vars

(***************************************************************************)
(* Text helpers used to state the properties.                              *)
(***************************************************************************)
CharsOf(s) == {SubSeq(s, k, k) : k \in 1..Len(s)}
OccursAt(sub, s, k) == SubSeq(s, k, k + Len(sub) - 1) = sub
CountOf(sub, s) == Cardinality({k \in 1..(Len(s) - Len(sub) + 1) : OccursAt(sub, s, k)})
Contains(s, sub) == \E k \in 1..(Len(s) - Len(sub) + 1) : OccursAt(sub, s, k)
StartsWith(s, prefix) == OccursAt(prefix, s, 1)

\* generateLuaCode has returned
Generated == pc = "generated"

\* the top-level groups, in document order and in the order the loop visits them
Groups == rootPane.panes
RootPanes == [k \in 1..Len(Groups) |-> Groups[Len(Groups) + 1 - k]]
CallsOf(i) == SelectSeq(splits, LAMBDA c : c.i = i)

(***************************************************************************)
(* C8: sanitizeName is total and idempotent: sanitizing a result again     *)
(* returns it unchanged, the result is as long as the argument, and every  *)
(* character of the result is in [a-z0-9_].                                *)
(***************************************************************************)
LowerWordChars == {LowerChars[k] : k \in 1..26} \cup {DigitChars[k] : k \in 1..10} \cup {"_"}

C8_SanitizeIdempotent ==
    /\ pc = "sanitize" => ENABLED Sanitize
    /\ pc \in {"sanitized", "resanitized"} =>
          /\ Len(sanitized) = Len(name)
          /\ CharsOf(sanitized) \subseteq LowerWordChars
    /\ pc = "resanitized" => again = sanitized

C8_Witness ==
    /\ pc = "resanitized"
    /\ name = "Z-a"
    /\ sanitized = "z_a"
    /\ again = "z_a"

(***************************************************************************)
(* C6: fs.writeFileSync is called at most once, and only when the parser   *)
(* reported no error and a top-level node named layout exists; a failed    *)
(* read, a parse error or a missing layout node ends the run with no call, *)
(* the output path as it was before the run and (for the last two) one     *)
(* diagnostic.  A call that returns leaves the script in the file; a call  *)
(* that throws leaves the path as it was or a proper prefix of the script. *)
(***************************************************************************)
LayoutPresent ==
    /\ "output" \in DOMAIN parseResult
    /\ \E k \in 1..Len(parseResult.output) : parseResult.output[k].name = "layout"

IsProperPrefix(t, s) == Len(t) < Len(s) /\ SubSeq(s, 1, Len(t)) = t

C6_WriteOnlyAfterLayout ==
    /\ writeCalls <= 1
    /\ writeCalls = 0 => outputFile = existingFile
    /\ writeCalls # 0 =>
          /\ pc \in {"returned", "threw"}
          /\ parseResult.errors = <<>>
          /\ LayoutPresent
          /\ stderr = <<>>
    /\ pc = "threw" =>
          \/ outputFile = existingFile
          \/ writeCalls = 1 /\ Len(outputFile) = 1 /\ IsProperPrefix(outputFile[1], luaCode)
    /\ (pc = "returned" /\ (parseResult.errors # <<>> \/ ~LayoutPresent)) =>
          /\ writeCalls = 0
          /\ Len(stderr) = 1
    /\ (pc = "returned" /\ parseResult.errors = <<>> /\ LayoutPresent) =>
          (writeCalls = 1 /\ outputFile = <<luaCode>>)

C6_Witness ==
    /\ pc = "returned"
    /\ parseResult.errors = <<>>
    /\ Len(parseResult.output) = 1
    /\ ~LayoutPresent
    /\ writeCalls = 0
    /\ existingFile = <<"old script">>
    /\ outputFile = <<"old script">>
    /\ stderr = <<"No layout node found in KDL file">>

(***************************************************************************)
(* C1: every top-level group other than the main pane that has N >= 1      *)
(* child panes gets exactly N split statements: the first is a 'Bottom'    *)
(* split of the base identifier pane, the other N-1 are 'Right' splits.    *)
(* The script text holds as many 'Bottom' statements as there are such     *)
(* groups and N-1 'Right' statements for each.                             *)
(***************************************************************************)
NonEmptyGroups == {i \in 1..(Len(RootPanes) - 1) : Len(RootPanes[i + 1].panes) >= 1}

RECURSIVE SumOver(_, _)
SumOver(f, S) ==
    IF S = {} THEN 0
    ELSE LET x == CHOOSE y \in S : TRUE IN f[x] + SumOver(f, S \ {x})

C1_GroupSplitCount ==
    Generated =>
        /\ \A i \in NonEmptyGroups :
              LET n == Len(RootPanes[i + 1].panes)
                  calls == CallsOf(i)
              IN  /\ Len(calls) = n
                  /\ calls[1].direction = "Bottom"
                  /\ calls[1].parentVar = "pane"
                  /\ \A k \in 2..n : calls[k].direction = "Right"
        /\ CountOf(" = pane:split {\n", luaCode) = Cardinality(NonEmptyGroups)
        /\ CountOf("    direction = 'Bottom'\n  }\n", luaCode) = Cardinality(NonEmptyGroups)
        /\ CountOf("    direction = 'Right'\n  }\n", luaCode) =
              SumOver([i \in NonEmptyGroups |-> Len(RootPanes[i + 1].panes) - 1],
                      NonEmptyGroups)

C1_Witness ==
    /\ Generated
    /\ Len(Groups) = 3
    /\ Len(Groups[1].panes) = 2
    /\ Len(Groups[2].panes) = 3
    /\ Len(CallsOf(1)) = 3
    /\ Len(CallsOf(2)) = 2
    /\ CountOf("    direction = 'Right'\n  }\n", luaCode) = 3

(***************************************************************************)
(* C2: every 'Right' split statement splits from the identifier that the   *)
(* statement just before it, of the same group, declared; so every         *)
(* statement's parent variable is pane or a variable declared earlier,     *)
(* also for children without a name.                                       *)
(***************************************************************************)
C2_RightSplitsChain ==
    Generated =>
        \A k \in 1..Len(splits) :
            /\ splits[k].direction = "Right" =>
                  /\ k > 1
                  /\ splits[k - 1].i = splits[k].i
                  /\ splits[k].parentVar = PaneVar(splits[k - 1].pane)
            /\ \/ splits[k].parentVar = "pane"
               \/ \E m \in 1..(k - 1) : PaneVar(splits[m].pane) = splits[k].parentVar

(***************************************************************************)
(* C3: a split statement declares pane_<sanitize(name)> for a named pane,  *)
(* pane_unnamed for an unnamed pane at index 0 of the reversed group and   *)
(* pane_unnamed_<index> for an unnamed pane at index >= 1.                 *)
(***************************************************************************)
ClaimedVar(pane, j) ==
    IF Truthy(pane, "name") THEN "pane_" \o sanitizeName(pane.name)
    ELSE IF j = 0 THEN "pane_unnamed"
    ELSE "pane_unnamed_" \o ToString(j)

C3_DeclaredVariable ==
    Generated =>
        \A k \in 1..Len(splits) :
            StartsWith(generatePaneSplit(splits[k].parentVar, splits[k].pane, splits[k].direction),
                       "  -- we create a new horizontal pane\n  local "
                       \o ClaimedVar(splits[k].pane, splits[k].j) \o " = ")

(***************************************************************************)
(* C4: main-pane elision.  With exactly one top-level pane group, whatever *)
(* its children, commands and names, the script is the prologue followed   *)
(* directly by the epilogue; in general no split statement is made for     *)
(* index 0 of the reversed top-level sequence or for its descendants.      *)
(***************************************************************************)
C4_MainPaneElision ==
    Generated =>
        /\ Len(Groups) = 1 => (splits = <<>> /\ luaCode = Prologue \o Epilogue)
        /\ \A k \in 1..Len(splits) : splits[k].i >= 1
        /\ Len(Groups) >= 1 =>
              CountOf(":split {\n", luaCode) =
                 SumOver([g \in 1..(Len(Groups) - 1) |-> Len(Groups[g].panes)],
                         1..(Len(Groups) - 1))

C4_Witness ==
    /\ Generated
    /\ Len(Groups) = 1
    /\ Len(Groups[1].panes) = 2
    /\ Truthy(Groups[1].panes[1], "command")
    /\ Len(Groups[1].panes[1].panes) = 1
    /\ luaCode = Prologue \o Epilogue

(***************************************************************************)
(* C5: two top-level pane groups, one of which has exactly the two child   *)
(* panes x and y, in that order.                                           *)
(***************************************************************************)
HoldsXY(group) ==
    /\ Len(group.panes) = 2
    /\ Truthy(group.panes[1], "name") /\ group.panes[1].name = "x"
    /\ Truthy(group.panes[2], "name") /\ group.panes[2].name = "y"

SplitsYThenX ==
    /\ Len(splits) = 2
    /\ PaneVar(splits[1].pane) = "pane_y"
    /\ splits[1].parentVar = "pane"
    /\ splits[1].direction = "Bottom"
    /\ PaneVar(splits[2].pane) = "pane_x"
    /\ splits[2].parentVar = "pane_y"
    /\ splits[2].direction = "Right"

\* C5 as stated: the SECOND group holds x and y and the first has no child
\* panes; the script holds the two statements pane_y (Bottom, from pane) and
\* pane_x (Right, from pane_y).
C5_SecondGroupXY ==
    (Generated /\ Len(Groups) = 2 /\ Groups[1].panes = <<>> /\ HoldsXY(Groups[2]))
        => SplitsYThenX

\* C5 amended: the FIRST group holds x and y (the second group is the main
\* pane, whatever its children); the script holds exactly the two statements
\* pane_y (Bottom, from pane) and pane_x (Right, from pane_y).
C5_FirstGroupXY ==
    (Generated /\ Len(Groups) = 2 /\ HoldsXY(Groups[1])) =>
        /\ SplitsYThenX
        /\ (\A k \in 1..2 : ~Truthy(Groups[1].panes[k], "command")) =>
              luaCode = Prologue
                 \o "  -- we create a new horizontal pane\n  local pane_y = pane:split {\n    direction = 'Bottom'\n  }\n"
                 \o "  -- we create a new horizontal pane\n  local pane_x = pane_y:split {\n    direction = 'Right'\n  }\n"
                 \o Epilogue

C5_Witness ==
    /\ Generated
    /\ Len(Groups) = 2
    /\ HoldsXY(Groups[1])
    /\ Len(Groups[2].panes) = 2
    /\ Len(splits) = 2
    /\ Contains(luaCode, "local pane_x = pane_y:split {")

(***************************************************************************)
(* C7: a split statement has an args key exactly when its pane has a       *)
(* command; the list is the command followed by the values of the pane's   *)
(* args node in document order, each in single quotes, joined by ', '.  An *)
(* args node of a pane without a command contributes nothing.              *)
(***************************************************************************)
\* the document node a split call was made for
LayoutGroups == SelectSeq(FindLayout(parseResult.output)[1].children, IsPaneNode)
NodeOf(call) ==
    LET groupNode == LayoutGroups[Len(LayoutGroups) - call.i]
        childNodes == SelectSeq(groupNode.children, IsPaneNode)
    IN  childNodes[Len(childNodes) - call.j]

HasCommand(node) == "command" \in DOMAIN node.properties /\ node.properties.command # ""

ArgValuesOf(node) ==
    IF \E k \in 1..Len(node.children) : node.children[k].name = "args"
    THEN node.children[CHOOSE k \in 1..Len(node.children) :
                          /\ node.children[k].name = "args"
                          /\ \A m \in 1..(k - 1) : node.children[m].name # "args"].values
    ELSE <<>>

RECURSIVE CommaList(_, _)
CommaList(items, n) ==
    IF n = 0 THEN ""
    ELSE IF n = 1 THEN "'" \o items[1] \o "'"
    ELSE CommaList(items, n - 1) \o ", " \o "'" \o items[n] \o "'"

ExpectedArgs(node) ==
    IF HasCommand(node)
    THEN LET items == <<node.properties.command>> \o ArgValuesOf(node)
         IN  "    args = {" \o CommaList(items, Len(items)) \o "},\n"
    ELSE ""

RECURSIVE ExpectedStatements(_)
ExpectedStatements(k) ==
    IF k = 0 THEN ""
    ELSE ExpectedStatements(k - 1)
         \o "  -- we create a new horizontal pane\n"
         \o "  local " \o PaneVar(splits[k].pane) \o " = " \o splits[k].parentVar \o ":split {\n"
         \o ExpectedArgs(NodeOf(splits[k]))
         \o "    direction = '" \o splits[k].direction \o "'\n  }\n"

C7_ArgsList ==
    Generated =>
        /\ luaCode = Prologue \o ExpectedStatements(Len(splits)) \o Epilogue
        /\ CountOf("    args = {", luaCode) =
              Cardinality({k \in 1..Len(splits) : HasCommand(NodeOf(splits[k]))})

C7_Witness ==
    /\ Generated
    /\ Len(splits) = 2
    /\ ArgValuesOf(NodeOf(splits[1])) = <<"-p", "22", "host">>
    /\ HasCommand(NodeOf(splits[2])) /\ ArgValuesOf(NodeOf(splits[2])) = <<>>
    /\ Contains(luaCode, "  local pane_c = pane:split {\n    args = {'ssh', '-p', '22', 'host'},\n    direction = 'Bottom'\n  }\n")
    /\ Contains(luaCode, "  local pane_c = pane_c:split {\n    args = {'htop'},\n    direction = 'Right'\n  }\n")

(***************************************************************************)
(* C9: two-level nesting limit.  The number of split statements is the sum *)
(* of the direct child panes of every top-level group but the last one in  *)
(* document order, and the script is the same as for the document without  *)
(* its panes at depth 3 and deeper.                                        *)
(***************************************************************************)
\* a group's child without the panes below it
WithoutPanes(node) ==
    [node EXCEPT !.children = SelectSeq(@, LAMBDA c : c.name # "pane")]
\* a top-level group with its children cut at depth 2
CutAtDepth2(node) ==
    [node EXCEPT !.children =
        [k \in 1..Len(@) |-> IF @[k].name = "pane" THEN WithoutPanes(@[k]) ELSE @[k]]]
CutLayoutChildren ==
    LET children == FindLayout(parseResult.output)[1].children
    IN  [k \in 1..Len(children) |-> CutAtDepth2(children[k])]

\* levels of panes in a pane's subtree, the pane itself included
RECURSIVE Depth(_)
Depth(pane) ==
    IF pane.panes = <<>> THEN 1
    ELSE LET below == {Depth(pane.panes[k]) : k \in 1..Len(pane.panes)}
         IN  1 + (CHOOSE d \in below : \A e \in below : e <= d)

C9_TwoLevelLimit ==
    Generated =>
        /\ Len(splits) =
              SumOver([g \in 1..(Len(Groups) - 1) |-> Len(Groups[g].panes)],
                      1..(Len(Groups) - 1))
        /\ luaCode = generateLuaCode(processChildren(CutLayoutChildren, [panes |-> <<>>]))

C9_Witness ==
    /\ Generated
    /\ Len(Groups) = 2
    /\ Depth(Groups[1]) = 3
    /\ Len(Groups[1].panes) = 2
    /\ Len(Groups[2].panes) = 1
    /\ Len(splits) = 2

(***************************************************************************)
(* C10: a top-level group other than the main pane that has no child panes *)
(* gets no split statement, also when it has a command and a name: its     *)
(* command is not emitted and no variable is declared for it.  A layout of *)
(* leaf top-level panes only has no split statement at all.                *)
(***************************************************************************)
C10_LeafGroupSilent ==
    Generated =>
        /\ \A i \in 1..(Len(RootPanes) - 1) :
              RootPanes[i + 1].panes = <<>> =>
                 /\ CallsOf(i) = <<>>
                 /\ Truthy(RootPanes[i + 1], "command") =>
                       ~Contains(luaCode, "'" \o RootPanes[i + 1].command \o "'")
                 /\ Truthy(RootPanes[i + 1], "name") =>
                       ~Contains(luaCode, "local pane_" \o sanitizeName(RootPanes[i + 1].name) \o " ")
        /\ (\A g \in 1..Len(Groups) : Groups[g].panes = <<>>) =>
              (splits = <<>> /\ luaCode = Prologue \o Epilogue)

C10_Witness ==
    /\ Generated
    /\ Len(Groups) = 3
    /\ Groups[1].panes = <<>>
    /\ Truthy(Groups[1], "command")
    /\ Truthy(Groups[1], "name")
    /\ Len(Groups[2].panes) = 2
    /\ Len(splits) = 2

=============================================================================
